---- MODULE Spec2Model ----
(***************************************************************************)
(* Zombie Hunter (src/main.py): a command-line run that enumerates         *)
(* regions, scans each region for unattached volumes and idle elastic IPs, *)
(* optionally asks a Bedrock model for a risk score per resource, and      *)
(* presents the list as a table, a JSON file and/or a markdown report.     *)
(*                                                                         *)
(* The program is sequential.  Every call to an external service (EC2,     *)
(* Bedrock) is two steps: the call, whose outcome the environment chooses  *)
(* and which is held in `response`, and the code that handles it.          *)
(***************************************************************************)
EXTENDS Integers, Sequences, FiniteSets, TLC

\* ---------------------------------------------------------------- bounds
\* Longest explicit --regions list.
MaxRegions == 2
\* Most items one describe_volumes / describe_addresses response holds.
MaxFound == 1
\* Most entries in the "analyses" array of a model's answer.
MaxEntries == 2
\* Longest list handed to analyze_with_ai when it is called on its own; a
\* model's answer names resource numbers from -1 up to it.
MaxZombies == 2

\* ------------------------------------------------------------- constants
BootstrapRegion == "us-east-1"
Regions == {"us-east-1", "eu-west-1"}
\* What describe_regions answers when it succeeds.
AllRegions == <<"us-east-1", "eu-west-1">>

models_to_try ==
  << "anthropic.claude-3-haiku-20240307-v1:0",
     "anthropic.claude-3-5-sonnet-20241022-v2:0",
     "anthropic.claude-3-sonnet-20240229-v1:0",
     "anthropic.claude-instant-v1" >>

\* The error codes analyze_with_ai treats as "this model is not available".
UnavailableCodes ==
  {"ResourceNotFoundException", "ValidationException", "AccessDeniedException"}
\* Codes a ClientError of invoke_model may carry.
ErrorCodes == UnavailableCodes \cup {"ThrottlingException"}

\* The keys of the risk_counts dictionaries of the table and the report.
RiskBuckets == {"Low", "Medium", "High", "Unknown"}

ReasonUnavailable == "AI analysis unavailable - check Bedrock model access"
ReasonParseFailed == "Failed to parse AI analysis"
ReasonMissing == "Analysis not available for this resource"

SeqsUpTo(S, n) == UNION {[1..k -> S] : k \in 0..n}

\* ------------------------------------------------------------- resources
\* A record without the 'ai_analysis' key.
NoAnalysis == [absent |-> TRUE]
HasAnalysis(z) == "risk_score" \in DOMAIN z.ai_analysis

Volume(region, i) ==
  [resource_type |-> "ebs_volume", resource_id |-> <<"vol", region, i>>,
   region |-> region, ai_analysis |-> NoAnalysis]
ElasticIp(region, i) ==
  [resource_type |-> "elastic_ip", resource_id |-> <<"eipalloc", region, i>>,
   region |-> region, ai_analysis |-> NoAnalysis]
\* The synthetic resource of --test-bedrock.
test_zombies ==
  << [resource_type |-> "ebs_volume", resource_id |-> <<"vol", "test123", 0>>,
      region |-> "us-east-1", ai_analysis |-> NoAnalysis] >>

\* ------------------------------------------------------------- EC2 answers
NoResponse == [status |-> "none"]

\* An exception class a boto3 call raises that is not ClientError
\* (EndpointConnectionError, a KeyError on the answer, ...).
OtherError == "Exception"

\* describe_volumes, filtered server-side to status 'available'.
VolumeResponses ==
  {[status |-> "ok", items |-> [i \in 1..n |-> [attached |-> FALSE]]] : n \in 0..MaxFound}
\* describe_addresses: every allocated address, attached or not.
AddressResponses ==
  {[status |-> "ok", items |-> s] :
     s \in SeqsUpTo([InstanceId : BOOLEAN, NetworkInterfaceId : BOOLEAN], MaxFound)}
ErrorResponses == {[status |-> "ClientError"], [status |-> OtherError]}

\* What an EC2 call may answer: without credentials botocore raises
\* NoCredentialsError when the request is signed.
Ec2Outcomes(creds, answers) ==
  IF creds THEN answers \cup ErrorResponses ELSE {[status |-> "NoCredentialsError"]}

\* ------------------------------------------------------- the model's answer
\* The answer text is a sequence of tokens: prose, an opening brace, a closing
\* brace, and the members of one JSON object (what stands between its braces).
Prose == [t |-> "prose"]
LBrace == [t |-> "{"]
RBrace == [t |-> "}"]
Members(a) == [t |-> "members", analyses |-> a]

ReasonText == "One sentence explanation"
\* risk_score values a model may write: two of the asked-for ones and one
\* that is not among Low/Medium/High.
RiskWords == {"Low", "High", "Critical"}

\* Entries that carry all three keys.
FullEntries ==
  {[resource_number |-> n, risk_score |-> s, reason |-> ReasonText] :
     n \in (-1)..MaxZombies, s \in RiskWords}
\* Entries that lack one key, for a resource_number in range (1) and one
\* below the range (0).
PartialEntries ==
  {[risk_score |-> "Low", reason |-> ReasonText]}
  \cup {[resource_number |-> n, reason |-> ReasonText] : n \in 0..1}
  \cup {[resource_number |-> n, risk_score |-> "Low"] : n \in 0..1}
Entries == FullEntries \cup PartialEntries

\* The value under "analyses": no such key, a value that cannot be iterated
\* (a number), or an array of entries.
AnalysesValues ==
  {[kind |-> "absent"], [kind |-> "number"]}
  \cup {[kind |-> "list", entries |-> es] : es \in SeqsUpTo(Entries, MaxEntries)}

SampleMembers == Members([kind |-> "list", entries |-> <<[resource_number |-> 1, risk_score |-> "Low", reason |-> ReasonText]>>])

\* Answer texts: every object alone, and the other shapes around one object.
Texts ==
  {<<LBrace, Members(a), RBrace>> : a \in AnalysesValues}
  \cup { <<>>, <<Prose>>, <<LBrace>>, <<RBrace>>, <<RBrace, LBrace>>,
         <<LBrace, RBrace>>, <<Prose, LBrace, RBrace, Prose>>,
         <<Prose, LBrace, SampleMembers, RBrace, Prose>>,
         <<LBrace, SampleMembers, RBrace, RBrace>>,
         <<LBrace, LBrace, SampleMembers, RBrace>>,
         <<LBrace, SampleMembers, RBrace, Prose, LBrace, SampleMembers, RBrace>> }

\* What invoke_model may do.  envelope: whether the body is JSON holding
\* content[0].text.
BedrockAnswers ==
  {[status |-> "ok", envelope |-> TRUE, text |-> t] : t \in Texts}
  \cup {[status |-> "ok", envelope |-> FALSE, text |-> <<>>]}
  \cup {[status |-> "ClientError", code |-> c] : c \in ErrorCodes}
  \cup {[status |-> OtherError]}
BedrockOutcomes(creds) ==
  IF creds THEN BedrockAnswers ELSE {[status |-> "NoCredentialsError"]}

\* ------------------------------------------------------- _merge_analysis
\* str.find / str.rfind: 0-based index of the first / last such token, or -1.
find(text, tok) ==
  IF \E i \in 1..Len(text) : text[i] = tok
  THEN (CHOOSE i \in 1..Len(text) :
          text[i] = tok /\ \A j \in 1..(i - 1) : text[j] # tok) - 1
  ELSE -1
rfind(text, tok) ==
  IF \E i \in 1..Len(text) : text[i] = tok
  THEN (CHOOSE i \in 1..Len(text) :
          text[i] = tok /\ \A j \in (i + 1)..Len(text) : text[j] # tok) - 1
  ELSE -1
\* text[a:b] for 0 <= a and 0 <= b <= len(text).
Slice(text, a, b) == IF a < b THEN SubSeq(text, a + 1, b) ELSE <<>>

EmptyObject == [kind |-> "absent"]
\* json.loads of a string that starts at a '{': an object parses when it is
\* one pair of braces around nothing or around one member list.
json_loads(s) ==
  IF Len(s) = 2 /\ s[1] = LBrace /\ s[2] = RBrace
    THEN [ok |-> TRUE, analyses |-> EmptyObject]
  ELSE IF Len(s) = 3 /\ s[1] = LBrace /\ s[2].t = "members" /\ s[3] = RBrace
    THEN [ok |-> TRUE, analyses |-> s[2].analyses]
  ELSE [ok |-> FALSE, analyses |-> EmptyObject]

\* The place of zs[idx] for a Python index: from the end when negative.
PyIndex(zs, idx) == IF idx < 0 THEN Len(zs) + idx + 1 ELSE idx + 1
\* zombies[idx]['ai_analysis'] = a
SetAnalysis(zs, idx, a) == [zs EXCEPT ![PyIndex(zs, idx)].ai_analysis = a]
AnnotateAll(zs, a) == [i \in DOMAIN zs |-> [zs[i] EXCEPT !.ai_analysis = a]]
Unknown(reason) == [risk_score |-> "Unknown", reason |-> reason]

\* Mutant: the bounds test without its lower bound.
InBoundsMutant(resource_idx, zs) == resource_idx < Len(zs)

\* The bounds test of the merge loop.
InBounds(resource_idx, zs) == 0 <= resource_idx /\ resource_idx < Len(zs)

\* The loop over analysis_data['analyses'], from entry i on: the list as the
\* loop leaves it, and whether the loop raised (a missing key).
RECURSIVE MergeEntries(_, _, _)
MergeEntries(zs, entries, i) ==
  IF i > Len(entries) THEN [raised |-> FALSE, zombies |-> zs]
  ELSE LET analysis == entries[i] IN
    IF "resource_number" \notin DOMAIN analysis
      THEN [raised |-> TRUE, zombies |-> zs]
    ELSE LET resource_idx == analysis.resource_number - 1 IN
      IF InBounds(resource_idx, zs)
        THEN IF "risk_score" \notin DOMAIN analysis \/ "reason" \notin DOMAIN analysis
               THEN [raised |-> TRUE, zombies |-> zs]
               ELSE MergeEntries(
                      SetAnalysis(zs, resource_idx,
                                  [risk_score |-> analysis.risk_score,
                                   reason |-> analysis.reason]),
                      entries, i + 1)
        ELSE MergeEntries(zs, entries, i + 1)

\* The second loop: a default for every record still without 'ai_analysis'.
AddDefaults(zs) ==
  [i \in DOMAIN zs |->
     IF HasAnalysis(zs[i]) THEN zs[i]
     ELSE [zs[i] EXCEPT !.ai_analysis = Unknown(ReasonMissing)]]

\* Mutant: the except branch keeps the analyses the loop had attached.
ParseFailedMutant(zs) ==
  [i \in DOMAIN zs |->
     IF HasAnalysis(zs[i]) THEN zs[i]
     ELSE [zs[i] EXCEPT !.ai_analysis = Unknown(ReasonParseFailed)]]

\* The except branch: every record is overwritten.
ParseFailed(zs) == AnnotateAll(zs, Unknown(ReasonParseFailed))

\* The try block: the list as it stands when the block ends, and whether it
\* ended by raising.
MergeTry(zs, analysis_text) ==
  LET start_idx == find(analysis_text, LBrace)
      end_idx == rfind(analysis_text, RBrace) + 1
  IN IF start_idx = -1 \/ end_idx = 0 THEN [raised |-> TRUE, zombies |-> zs]
     ELSE LET analysis_data == json_loads(Slice(analysis_text, start_idx, end_idx)) IN
       IF ~analysis_data.ok THEN [raised |-> TRUE, zombies |-> zs]
       ELSE LET a == analysis_data.analyses IN
         IF a.kind = "number" THEN [raised |-> TRUE, zombies |-> zs]
         ELSE LET r == MergeEntries(zs, IF a.kind = "list" THEN a.entries ELSE <<>>, 1) IN
           IF r.raised THEN r ELSE [raised |-> FALSE, zombies |-> AddDefaults(r.zombies)]

merge_analysis(zs, analysis_text) ==
  LET r == MergeTry(zs, analysis_text) IN
  IF r.raised THEN ParseFailed(r.zombies) ELSE r.zombies

\* ------------------------------------------------------------------ state
VARIABLES
  test_bedrock,    \* --test-bedrock
  analyze,         \* --analyze
  output,          \* --output given
  report,          \* --report given
  cli_regions,     \* --regions, <<>> when not given
  credentials,     \* whether the session can find AWS credentials
  hunter_regions,  \* ZombieHunter.regions
  scan_regions,    \* the list hunt_zombies iterates
  region_idx,      \* position of hunt_zombies in scan_regions
  ec2_calls,       \* the describe_volumes / describe_addresses calls made, in order
  zombies,         \* the resource list
  pc,              \* where the run stands
  caller,          \* who called analyze_with_ai
  response,        \* the answer of the service call being handled
  model_idx,       \* position of analyze_with_ai in models_to_try
  requests,        \* the model ids invoke_model was called with, in order
  ai_outcome,      \* how analyze_with_ai ended: none, merged, parse_failed, failed
  presenters,      \* the presenters that read the list, and whether each finished
  stderr,          \* what the enumerator and the scanners wrote to the error stream
  exc,             \* the exception on its way to main's handlers
  message,         \* the error message main printed
  exit_status      \* running, zero, nonzero

vars ==
  << test_bedrock, analyze, output, report, cli_regions, credentials,
     hunter_regions, scan_regions, region_idx, ec2_calls, zombies, pc, caller,
     response, model_idx, requests, ai_outcome, presenters, stderr, exc, message, exit_status >>

flags == << test_bedrock, analyze, output, report, cli_regions, credentials >>
hunt_vars == << hunter_regions, scan_regions, region_idx, ec2_calls >>
ai_vars == << model_idx, requests, ai_outcome >>
end_vars == << presenters, exc, message, exit_status >>

Idle ==
  /\ hunter_regions = <<>>
  /\ scan_regions = <<>>
  /\ region_idx = 1
  /\ ec2_calls = <<>>
  /\ response = NoResponse
  /\ model_idx = 1
  /\ requests = <<>>
  /\ ai_outcome = "none"
  /\ presenters = <<>>
  /\ stderr = <<>>
  /\ exc = "none"
  /\ message = "none"
  /\ exit_status = "running"

\* A run of main: any flags, with or without credentials.
Init ==
  /\ test_bedrock \in BOOLEAN
  /\ analyze \in BOOLEAN
  /\ output \in BOOLEAN
  /\ report \in BOOLEAN
  /\ cli_regions \in SeqsUpTo(Regions, MaxRegions)
  /\ credentials \in BOOLEAN
  /\ zombies = <<>>
  /\ pc = "init"
  /\ caller = "none"
  /\ Idle

\* ------------------------------------------------- ZombieHunter.__init__
\* _get_regions: any failure of describe_regions is caught.
get_regions(r) == IF r.status = "ok" THEN AllRegions ELSE <<BootstrapRegion>>

hunter_init ==
  /\ pc = "init"
  /\ \E r \in Ec2Outcomes(credentials, {[status |-> "ok"]}) :
       /\ hunter_regions' = get_regions(r)
       /\ stderr' = IF r.status = "ok" THEN stderr
                    ELSE Append(stderr, <<"Error getting regions">>)
  /\ pc' = "main"
  /\ UNCHANGED << flags, scan_regions, region_idx, ec2_calls, zombies, caller,
                  response, ai_vars, end_vars >>

\* ------------------------------------------------------------------ main
main_test_bedrock ==
  /\ pc = "main" /\ test_bedrock
  /\ zombies' = test_zombies
  /\ caller' = "test_bedrock"
  /\ pc' = "analyze"
  /\ UNCHANGED << stderr, flags, hunt_vars, response, ai_vars, end_vars >>

main_hunt ==
  /\ pc = "main" /\ ~test_bedrock
  /\ scan_regions' = IF cli_regions # <<>> THEN cli_regions ELSE hunter_regions
  /\ region_idx' = 1
  /\ pc' = "hunt"
  /\ UNCHANGED << stderr, flags, hunter_regions, ec2_calls, zombies, caller,
                  response, ai_vars, end_vars >>

\* ----------------------------------------------------------- hunt_zombies
\* Mutant: records already in the list are not added again.
extendMutant(all_zombies, found) ==
  all_zombies \o SelectSeq(found, LAMBDA z :
                             \A i \in 1..Len(all_zombies) : all_zombies[i] # z)

\* all_zombies.extend(found)
extend(all_zombies, found) == all_zombies \o found

\* Mutant: the scanners catch nothing.
ScanCatchesMutant(status) == FALSE

\* The except clause of both scanners.
ScanCatches(status) == status = "ClientError"

\* What a scanner does with the answer: the records it returns and whether
\* it logged an error, or the exception that leaves it.
ScanResult(resp, records) ==
  IF resp.status = "ok" THEN [exc |-> "none", found |-> records, logged |-> FALSE]
  ELSE IF ScanCatches(resp.status) THEN [exc |-> "none", found |-> <<>>, logged |-> TRUE]
  ELSE [exc |-> resp.status, found |-> <<>>, logged |-> FALSE]

\* click.echo(f"Error in region {region}: {e}", err=True)
Logged(r, region) ==
  IF r.logged THEN Append(stderr, <<"Error in region", region>>) ELSE stderr

\* EIP is idle if it has no InstanceId or NetworkInterfaceId.
IsIdle(address) == ~address.InstanceId /\ ~address.NetworkInterfaceId

RECURSIVE IdleIps(_, _, _)
IdleIps(region, items, i) ==
  IF i > Len(items) THEN <<>>
  ELSE (IF IsIdle(items[i]) THEN <<ElasticIp(region, i)>> ELSE <<>>)
       \o IdleIps(region, items, i + 1)

find_unattached_volumes(region, resp) ==
  ScanResult(resp, IF resp.status = "ok"
                     THEN [i \in 1..Len(resp.items) |-> Volume(region, i)] ELSE <<>>)

find_idle_elastic_ips(region, resp) ==
  ScanResult(resp, IF resp.status = "ok" THEN IdleIps(region, resp.items, 1) ELSE <<>>)

describe_volumes ==
  /\ pc = "hunt" /\ region_idx <= Len(scan_regions)
  /\ response' \in Ec2Outcomes(credentials, VolumeResponses)
  /\ ec2_calls' = Append(ec2_calls, <<"describe_volumes", scan_regions[region_idx]>>)
  /\ pc' = "volumes"
  /\ UNCHANGED << stderr, flags, hunter_regions, scan_regions, region_idx,
                  zombies, caller, ai_vars, end_vars >>

scan_volumes ==
  /\ pc = "volumes"
  /\ LET r == find_unattached_volumes(scan_regions[region_idx], response) IN
       /\ zombies' = extend(zombies, r.found)
       /\ stderr' = Logged(r, scan_regions[region_idx])
       /\ exc' = r.exc
       /\ pc' = IF r.exc = "none" THEN "ips" ELSE "except"
  /\ response' = NoResponse
  /\ UNCHANGED << flags, hunt_vars, caller, ai_vars, presenters, message, exit_status >>

describe_addresses ==
  /\ pc = "ips"
  /\ response' \in Ec2Outcomes(credentials, AddressResponses)
  /\ ec2_calls' = Append(ec2_calls, <<"describe_addresses", scan_regions[region_idx]>>)
  /\ pc' = "addresses"
  /\ UNCHANGED << stderr, flags, hunter_regions, scan_regions, region_idx,
                  zombies, caller, ai_vars, end_vars >>

scan_ips ==
  /\ pc = "addresses"
  /\ LET r == find_idle_elastic_ips(scan_regions[region_idx], response) IN
       /\ zombies' = extend(zombies, r.found)
       /\ stderr' = Logged(r, scan_regions[region_idx])
       /\ exc' = r.exc
       /\ pc' = IF r.exc = "none" THEN "hunt" ELSE "except"
       /\ region_idx' = IF r.exc = "none" THEN region_idx + 1 ELSE region_idx
  /\ response' = NoResponse
  /\ UNCHANGED << flags, hunter_regions, scan_regions, ec2_calls, caller, ai_vars,
                  presenters, message, exit_status >>

hunt_return ==
  /\ pc = "hunt" /\ region_idx > Len(scan_regions)
  /\ pc' = "hunted"
  /\ UNCHANGED << stderr, flags, hunt_vars, zombies, caller, response, ai_vars, end_vars >>

\* Mutant: the analyzer is called whatever the toggle.
CallsAnalyzerMutant(toggle, zs) == zs # <<>>

\* main, after the hunt: the analyzer is called only for a non-empty list.
CallsAnalyzer(toggle, zs) == toggle /\ zs # <<>>

main_analyze ==
  /\ pc = "hunted"
  /\ IF CallsAnalyzer(analyze, zombies)
       THEN caller' = "main" /\ pc' = "analyze"
       ELSE caller' = caller /\ pc' = "output"
  /\ UNCHANGED << stderr, flags, hunt_vars, zombies, response, ai_vars, end_vars >>

\* -------------------------------------------------------- analyze_with_ai
\* Where analyze_with_ai returns to.
ReturnTo(c) ==
  IF c = "main" THEN "analyzed"
  ELSE IF c = "test_bedrock" THEN "test_done"
  ELSE "returned"

\* `if not zombies: return zombies`; otherwise the client and the prompt are
\* made and the loop over the models starts.
analyze_enter ==
  /\ pc = "analyze"
  /\ IF zombies = <<>>
       THEN pc' = ReturnTo(caller) /\ model_idx' = model_idx
       ELSE pc' = "invoke" /\ model_idx' = 1
  /\ UNCHANGED << stderr, flags, hunt_vars, zombies, caller, response, requests,
                  ai_outcome, end_vars >>

\* session.client('bedrock-runtime', ...) raises (a region it cannot resolve).
analyze_no_client ==
  /\ pc = "analyze" /\ zombies # <<>>
  /\ pc' = "ai_except"
  /\ UNCHANGED << stderr, flags, hunt_vars, zombies, caller, response, ai_vars, end_vars >>

invoke_model ==
  /\ pc = "invoke" /\ model_idx <= Len(models_to_try)
  /\ requests' = Append(requests, models_to_try[model_idx])
  /\ response' \in BedrockOutcomes(credentials)
  /\ pc' = "invoked"
  /\ UNCHANGED << stderr, flags, hunt_vars, zombies, caller, model_idx, ai_outcome, end_vars >>

\* Mutant: every ClientError moves on to the next model.
AnswerActionMutant(r) ==
  IF r.status = "ok" THEN (IF r.envelope THEN "merge" ELSE "raise")
  ELSE IF r.status = "ClientError" THEN "continue"
  ELSE "raise"

\* What the loop body does with an answer: merge it and return, go on to the
\* next model, or raise to the outer except.
AnswerAction(r) ==
  IF r.status = "ok" THEN (IF r.envelope THEN "merge" ELSE "raise")
  ELSE IF r.status = "ClientError" /\ r.code \in UnavailableCodes THEN "continue"
  ELSE "raise"

model_unavailable ==
  /\ pc = "invoked" /\ AnswerAction(response) = "continue"
  /\ model_idx' = model_idx + 1
  /\ response' = NoResponse
  /\ pc' = "invoke"
  /\ UNCHANGED << stderr, flags, hunt_vars, zombies, caller, requests, ai_outcome, end_vars >>

model_raised ==
  /\ pc = "invoked" /\ AnswerAction(response) = "raise"
  /\ response' = NoResponse
  /\ pc' = "ai_except"
  /\ UNCHANGED << stderr, flags, hunt_vars, zombies, caller, ai_vars, end_vars >>

\* `return self._merge_analysis(zombies, analysis_text)`
model_answered ==
  /\ pc = "invoked" /\ AnswerAction(response) = "merge"
  /\ zombies' = merge_analysis(zombies, response.text)
  /\ ai_outcome' = IF MergeTry(zombies, response.text).raised
                     THEN "parse_failed" ELSE "merged"
  /\ response' = NoResponse
  /\ pc' = ReturnTo(caller)
  /\ UNCHANGED << stderr, flags, hunt_vars, caller, model_idx, requests, end_vars >>

\* The loop ended without a return: "No Bedrock models are available".
models_exhausted ==
  /\ pc = "invoke" /\ model_idx > Len(models_to_try)
  /\ pc' = "ai_except"
  /\ UNCHANGED << stderr, flags, hunt_vars, zombies, caller, response, ai_vars, end_vars >>

\* Mutant: the outer except returns the list as it is.
AnalysisFailedMutant(zs) == zs

\* The outer `except Exception`.
AnalysisFailed(zs) == AnnotateAll(zs, Unknown(ReasonUnavailable))

analyze_except ==
  /\ pc = "ai_except"
  /\ zombies' = AnalysisFailed(zombies)
  /\ ai_outcome' = "failed"
  /\ pc' = ReturnTo(caller)
  /\ UNCHANGED << stderr, flags, hunt_vars, caller, response, model_idx, requests, end_vars >>

\* ------------------------------------------------------ main, after the AI
main_test_return ==
  /\ pc = "test_done"
  /\ exit_status' = "zero"
  /\ pc' = "exited"
  /\ UNCHANGED << stderr, flags, hunt_vars, zombies, caller, response, ai_vars,
                  presenters, exc, message >>

\* The ai_worked test only prints guidance.
main_ai_checked ==
  /\ pc = "analyzed"
  /\ pc' = "output"
  /\ UNCHANGED << stderr, flags, hunt_vars, zombies, caller, response, ai_vars, end_vars >>

\* ------------------------------------------------------------- presenters
\* zombie.get('ai_analysis', {}).get('risk_score', 'Unknown')
RiskOf(z) == IF HasAnalysis(z) THEN z.ai_analysis.risk_score ELSE "Unknown"

\* risk_counts[risk_score] += 1 finds its key for every record.
CountsRisks(zs) == \A i \in DOMAIN zs : RiskOf(zs[i]) \in RiskBuckets

Reads(name, done) == Append(presenters, [name |-> name, done |-> done])

\* Mutant: the table is displayed also after the JSON file was written.
output_json_mutant ==
  /\ pc = "output" /\ output
  /\ presenters' = presenters \o <<[name |-> "json", done |-> TRUE],
                                   [name |-> "table", done |-> TRUE]>>
  /\ pc' = "report"
  /\ UNCHANGED << stderr, flags, hunt_vars, zombies, caller, response, ai_vars,
                  exc, message, exit_status >>

output_json ==
  /\ pc = "output" /\ output
  /\ presenters' = Reads("json", TRUE)
  /\ pc' = "report"
  /\ UNCHANGED << stderr, flags, hunt_vars, zombies, caller, response, ai_vars,
                  exc, message, exit_status >>

display_table ==
  /\ pc = "output" /\ ~output
  /\ IF CountsRisks(zombies)
       THEN presenters' = Reads("table", TRUE) /\ exc' = exc /\ pc' = "report"
       ELSE presenters' = Reads("table", FALSE) /\ exc' = "KeyError" /\ pc' = "except"
  /\ UNCHANGED << stderr, flags, hunt_vars, zombies, caller, response, ai_vars,
                  message, exit_status >>

generate_markdown_report ==
  /\ pc = "report" /\ report
  /\ IF zombies = <<>> \/ CountsRisks(zombies)
       THEN /\ presenters' = Reads("markdown", TRUE)
            /\ exc' = exc /\ pc' = "exited" /\ exit_status' = "zero"
       ELSE /\ presenters' = Reads("markdown", FALSE)
            /\ exc' = "KeyError" /\ pc' = "except" /\ exit_status' = exit_status
  /\ UNCHANGED << stderr, flags, hunt_vars, zombies, caller, response, ai_vars, message >>

main_return ==
  /\ pc = "report" /\ ~report
  /\ exit_status' = "zero"
  /\ pc' = "exited"
  /\ UNCHANGED << stderr, flags, hunt_vars, zombies, caller, response, ai_vars,
                  presenters, exc, message >>

\* ------------------------------------------------------- main's handlers
except_no_credentials ==
  /\ pc = "except" /\ exc = "NoCredentialsError"
  /\ message' = "AWS credentials not found"
  /\ exit_status' = "nonzero"
  /\ pc' = "exited"
  /\ UNCHANGED << stderr, flags, hunt_vars, zombies, caller, response, ai_vars, presenters, exc >>

except_exception ==
  /\ pc = "except" /\ exc # "NoCredentialsError"
  /\ message' = "Error"
  /\ exit_status' = "nonzero"
  /\ pc' = "exited"
  /\ UNCHANGED << stderr, flags, hunt_vars, zombies, caller, response, ai_vars, presenters, exc >>

\* ---------------------------------------------------------- specifications
Analyzer ==
  \/ analyze_enter
  \/ analyze_no_client
  \/ invoke_model
  \/ model_unavailable
  \/ model_raised
  \/ model_answered
  \/ models_exhausted
  \/ analyze_except

Next ==
  \/ hunter_init
  \/ main_test_bedrock
  \/ main_hunt
  \/ describe_volumes
  \/ scan_volumes
  \/ describe_addresses
  \/ scan_ips
  \/ hunt_return
  \/ main_analyze
  \/ Analyzer
  \/ main_test_return
  \/ main_ai_checked
  \/ output_json
  \/ display_table
  \/ generate_markdown_report
  \/ main_return
  \/ except_no_credentials
  \/ except_exception

Spec == Init /\ [][Next]_vars

\* analyze_with_ai called on its own, on any list the scanners can make.
ScannerRecords ==
  {Volume(r, 1) : r \in Regions} \cup {ElasticIp(r, 1) : r \in Regions}

InitAnalyzer ==
  /\ test_bedrock = FALSE
  /\ analyze = TRUE
  /\ output = FALSE
  /\ report = FALSE
  /\ cli_regions = <<>>
  /\ credentials \in BOOLEAN
  /\ zombies \in SeqsUpTo(ScannerRecords, MaxZombies)
  /\ pc = "analyze"
  /\ caller = "harness"
  /\ Idle

SpecAnalyzer == InitAnalyzer /\ [][Analyzer]_vars

\* ================================================================ claims
\* A list without its risk analyses: the records the scanners made.
Strip(zs) == [i \in DOMAIN zs |-> [zs[i] EXCEPT !.ai_analysis = NoAnalysis]]

AnalyzerPcs == {"analyze", "invoke", "invoked", "ai_except", "returned"}

\* The answer being handled is a model's text.
Answered == pc = "invoked" /\ response.status = "ok" /\ response.envelope

\* The text holds one JSON object between its first '{' and its last '}'.
IsObjectAt(text, i, j) ==
  /\ text[i] = LBrace /\ \A k \in 1..(i - 1) : text[k] # LBrace
  /\ text[j] = RBrace /\ \A k \in (j + 1)..Len(text) : text[k] # RBrace
  /\ \/ j = i + 1
     \/ j = i + 2 /\ text[i + 1].t = "members"
HoldsObject(text) == \E i, j \in 1..Len(text) : IsObjectAt(text, i, j)
\* The entries of that object's "analyses" array (none when it has no array).
EntriesIn(text) ==
  LET i == CHOOSE i \in 1..Len(text) : \E j \in 1..Len(text) : IsObjectAt(text, i, j)
  IN IF text[i + 1].t = "members" /\ text[i + 1].analyses.kind = "list"
       THEN text[i + 1].analyses.entries ELSE <<>>
AnalysesIsNumber(text) ==
  \E i, j \in 1..Len(text) :
    IsObjectAt(text, i, j) /\ j = i + 2 /\ text[i + 1].analyses.kind = "number"
HasAllKeys(e) == {"resource_number", "risk_score", "reason"} \subseteq DOMAIN e
WellFormed(text) ==
  /\ HoldsObject(text)
  /\ ~AnalysesIsNumber(text)
  /\ \A k \in DOMAIN EntriesIn(text) : HasAllKeys(EntriesIn(text)[k])

\* The analyzer is not stuck: it has returned, or the step its code takes
\* next has its condition met (an answer is merged, skipped or raised).
CanGoOn ==
  \/ pc \in {"returned", "analyze", "ai_except"}
  \/ /\ pc = "invoke"
     /\ model_idx <= Len(models_to_try) => BedrockOutcomes(credentials) # {}
  \/ /\ pc = "invoked"
     /\ AnswerAction(response) \in {"merge", "continue", "raise"}
     /\ AnswerAction(response) = "merge" => Len(merge_analysis(zombies, response.text)) >= 0

\* C1: analyze_with_ai, called on any list (the empty one included) and
\* whatever the inference service does, returns without raising: it never
\* leaves its own code for a handler of its caller and is never stuck before
\* it returns; the records stay the same, in the same order; on return every
\* record carries a risk analysis; for the empty list no request was sent.
C1_AnalyzerNeverRaises ==
  /\ [](pc \in AnalyzerPcs /\ exc = "none")
  /\ [](CanGoOn)
  /\ [][Strip(zombies') = Strip(zombies)]_vars
  /\ [](pc = "returned" =>
          /\ \A i \in DOMAIN zombies : HasAnalysis(zombies[i])
          /\ (zombies = <<>> => requests = <<>> /\ ai_outcome = "none"))

\* C1 witness: the analyzer has returned a two-record list after an
\* unexpected error, both records annotated.
C1_Witness ==
  /\ pc = "returned" /\ caller = "harness"
  /\ Len(zombies) = 2 /\ ai_outcome = "failed"
  /\ \A i \in DOMAIN zombies : HasAnalysis(zombies[i])

\* The answer being handled names the model as unavailable.
AnsweredUnavailable ==
  pc = "invoked" /\ response.status = "ClientError" /\ response.code \in UnavailableCodes

\* C2: the models are requested in the order of models_to_try, one request
\* each; the next request follows only an answer of one of the three
\* 'unavailable' error codes; after a successful answer or any other error
\* no request follows; after the last model was unavailable the attempt ends
\* as total failure.
C2_ModelOrder ==
  /\ [](/\ Len(requests) <= Len(models_to_try)
        /\ requests = SubSeq(models_to_try, 1, Len(requests))
        /\ (pc = "invoke" => Len(requests) = model_idx - 1)
        /\ (pc = "invoked" => Len(requests) = model_idx))
  /\ [][requests' # requests =>
          /\ pc = "invoke" /\ pc' = "invoked"
          /\ requests' = Append(requests, models_to_try[Len(requests) + 1])]_vars
  /\ [][pc' = "invoke" => pc = "analyze" \/ AnsweredUnavailable]_vars
  /\ [][pc = "invoked" /\ ~AnsweredUnavailable => (pc' # "invoke" /\ pc' # "invoked")]_vars
  /\ [][(pc = "ai_except" \/ pc = "returned") => (pc' = "ai_except" \/ pc' = "returned")]_vars
  /\ [][pc = "invoke" /\ Len(requests) = Len(models_to_try) =>
          pc' = "ai_except" /\ requests' = requests]_vars
  /\ [][pc = "ai_except" =>
          /\ ai_outcome' = "failed"
          /\ \A i \in DOMAIN zombies' :
               zombies'[i].ai_analysis = [risk_score |-> "Unknown", reason |-> ReasonUnavailable]]_vars

\* C2 witness: all four models were requested in order, each was
\* unavailable, and the attempt is about to end as total failure.
C2_Witness ==
  /\ pc = "ai_except" /\ model_idx = Len(models_to_try) + 1
  /\ requests = models_to_try

\* Some entry lacks one of its three keys.
SomeEntryLacksKey(text) ==
  \E k \in DOMAIN EntriesIn(text) : ~HasAllKeys(EntriesIn(text)[k])
\* Some entry lacks resource_number, or names a record of the list and lacks
\* risk_score or reason.
SomeUsedEntryLacksKey(zs, text) ==
  \E k \in DOMAIN EntriesIn(text) :
    LET e == EntriesIn(text)[k] IN
      \/ "resource_number" \notin DOMAIN e
      \/ /\ e.resource_number \in 1..Len(zs)
         /\ ~HasAllKeys(e)
AllParseFailed(before, after) ==
  /\ Strip(after) = Strip(before)
  /\ \A i \in DOMAIN after :
       after[i].ai_analysis = [risk_score |-> "Unknown", reason |-> ReasonParseFailed]

\* C7 as stated: a text without a JSON object, with unparseable JSON, or
\* with an entry that lacks resource_number, risk_score or reason leaves
\* every record {Unknown, "Failed to parse AI analysis"}.
C7_Original ==
  [][Answered /\ (~HoldsObject(response.text) \/ SomeEntryLacksKey(response.text))
       => AllParseFailed(zombies, zombies')]_vars

\* C7, amended: the same for a text without a JSON object, with unparseable
\* JSON, with an entry that lacks resource_number, or with an entry that
\* names a record of the list (1 <= resource_number <= length) and lacks
\* risk_score or reason: every record ends {Unknown, "Failed to parse AI
\* analysis"}, also the records an earlier entry had scored.
C7_ParseFailureIsTotal ==
  [][Answered /\ (~HoldsObject(response.text)
                  \/ SomeUsedEntryLacksKey(zombies, response.text))
       => AllParseFailed(zombies, zombies') /\ ai_outcome' = "parse_failed"]_vars

\* C7 witness: a two-record list came back from a model's answer with every
\* record marked as a parse failure.
C7_Witness ==
  /\ pc = "returned" /\ ai_outcome = "parse_failed" /\ Len(zombies) = 2
  /\ \A i \in DOMAIN zombies :
       zombies[i].ai_analysis = [risk_score |-> "Unknown", reason |-> ReasonParseFailed]

\* The analysis a well-formed answer gives record p: that of the last entry
\* naming p, or the default when no entry names it.
Named(text, p) == {k \in DOMAIN EntriesIn(text) : EntriesIn(text)[k].resource_number = p}
ExpectedAnalysis(text, p) ==
  IF Named(text, p) = {} THEN [risk_score |-> "Unknown", reason |-> ReasonMissing]
  ELSE LET k == CHOOSE k \in Named(text, p) : \A m \in Named(text, p) : m <= k
           e == EntriesIn(text)[k]
       IN [risk_score |-> e.risk_score, reason |-> e.reason]

\* C8: on a well-formed answer every record named by an entry with
\* 1 <= resource_number <= length carries that entry's risk_score and reason,
\* entries out of bounds (0 and -1 included) change nothing, every other record
\* carries {Unknown, "Analysis not available for this resource"}, and the
\* records keep their order.
C8_MergeByPosition ==
  [][Answered /\ WellFormed(response.text) =>
       /\ Strip(zombies') = Strip(zombies)
       /\ ai_outcome' = "merged"
       /\ \A p \in DOMAIN zombies :
            zombies'[p].ai_analysis = ExpectedAnalysis(response.text, p)]_vars

\* C8 witness: two records, the first scored Low and the second High.
C8_Witness ==
  /\ pc = "returned" /\ ai_outcome = "merged" /\ Len(zombies) = 2
  /\ zombies[1].ai_analysis.risk_score = "Low"
  /\ zombies[2].ai_analysis.risk_score = "High"

\* ------------------------------------------------------------ main's claims
ScanAnswered == pc = "volumes" \/ pc = "addresses"
IdleCount(items) == Cardinality({i \in DOMAIN items : IsIdle(items[i])})
\* The records after an answered scan: those before, then n new ones of the
\* scanned kind and region.
Appended(before, after, n, kind, region) ==
  /\ Len(after) = Len(before) + n
  /\ SubSeq(after, 1, Len(before)) = before
  /\ \A i \in (Len(before) + 1)..Len(after) :
       after[i].resource_type = kind /\ after[i].region = region

\* C3 as stated: whenever a scan fails (for any reason but missing
\* credentials), the run goes on and the scan adds no record.
C3_Original ==
  [][(ScanAnswered /\ credentials /\ response.status # "ok")
       => (pc' # "except" /\ exit_status' = "running" /\ zombies' = zombies)]_vars

\* C3, amended: when a scan of region R fails with an API error (ClientError),
\* the run is not aborted, the scan adds no record and logs one error for R,
\* and the hunt goes on with the next scan; a scan that succeeds adds exactly
\* the records of its own answer, after the records found before, whatever
\* failed earlier; every region of the list is scanned.
C3_ScanFailureIsolated ==
  /\ [][(ScanAnswered /\ response.status = "ClientError") =>
          /\ zombies' = zombies
          /\ stderr' = Append(stderr, <<"Error in region", scan_regions[region_idx]>>)
          /\ exc' = "none" /\ exit_status' = "running"]_vars
  /\ [][(ScanAnswered /\ response.status = "ok") =>
          /\ stderr' = stderr /\ exc' = "none" /\ exit_status' = "running"
          /\ pc = "volumes" =>
               Appended(zombies, zombies', Len(response.items),
                        "ebs_volume", scan_regions[region_idx])
          /\ pc = "addresses" =>
               Appended(zombies, zombies', IdleCount(response.items),
                        "elastic_ip", scan_regions[region_idx])]_vars
  /\ [][(ScanAnswered /\ response.status \in {"ok", "ClientError"}) =>
          /\ pc = "volumes" => (pc' = "ips" /\ region_idx' = region_idx)
          /\ pc = "addresses" => (pc' = "hunt" /\ region_idx' = region_idx + 1)]_vars
  /\ [][(pc = "hunt" \/ pc = "ips") =>
          /\ zombies' = zombies
          /\ (pc = "hunt" /\ region_idx <= Len(scan_regions)) => pc' = "volumes"
          /\ (pc = "hunt" /\ region_idx > Len(scan_regions)) => pc' = "hunted"
          /\ pc = "ips" => pc' = "addresses"]_vars

\* C3 witness: the hunt over two regions is done, one scan of us-east-1
\* failed with an API error, and the three other scans gave a record each.
C3_Witness ==
  /\ pc = "hunted"
  /\ scan_regions = <<"us-east-1", "eu-west-1">>
  /\ stderr = << <<"Error in region", "us-east-1">> >>
  /\ Len(zombies) = 3
  /\ zombies[1].region = "us-east-1"
  /\ zombies[2].region = "eu-west-1" /\ zombies[3].region = "eu-west-1"

\* C4: without credentials every run of main ends non-zero with the
\* credentials message.
C4_MissingCredentialsFatal ==
  (pc = "exited" /\ ~credentials)
    => (exit_status = "nonzero" /\ message = "AWS credentials not found")

\* C5: with AI analysis on and resources found, whatever the inference
\* service answered, the run ends with status zero and every selected
\* presenter has finished.
C5_RunSurvivesAi ==
  (pc = "exited" /\ caller = "main")
    => /\ exit_status = "zero"
       /\ Len(presenters) = (IF report THEN 2 ELSE 1)
       /\ \A i \in DOMAIN presenters : presenters[i].done

\* C6: the risk_score of every risk analysis is Low, Medium, High or Unknown.
C6_RiskScoreInBuckets ==
  \A i \in DOMAIN zombies :
    HasAnalysis(zombies[i]) => zombies[i].ai_analysis.risk_score \in RiskBuckets

PresenterNames == [i \in DOMAIN presenters |-> presenters[i].name]
FirstPresenter == IF output THEN "json" ELSE "table"
AfterAnalyzer == pc \in {"analyzed", "test_done", "output", "report", "except", "exited"}

\* C9 as stated (the part about the presenters): a scan that ends normally
\* had its list read by exactly one presenter.
C9_Original ==
  (pc = "exited" /\ exit_status = "zero" /\ ~test_bedrock) => Len(presenters) = 1

\* C9, amended: the list is read by the JSON presenter when an output file is
\* given and by the table otherwise, never by both, and after that one has
\* finished also by the markdown report exactly when --report is given (two
\* presenters then); a scan that ends normally had all of them finish; the
\* test mode presents nothing; no record changes once the analyzer has
\* returned.
C9_PresentersAndFrozenList ==
  /\ [](/\ Len(presenters) <= 2
        /\ test_bedrock => presenters = <<>>
        /\ Len(presenters) >= 1 => presenters[1].name = FirstPresenter
        /\ Len(presenters) = 2 =>
             (report /\ presenters[1].done /\ presenters[2].name = "markdown")
        /\ (pc = "exited" /\ exit_status = "zero" /\ ~test_bedrock) =>
             /\ PresenterNames =
                  <<FirstPresenter>> \o (IF report THEN <<"markdown">> ELSE <<>>)
             /\ \A i \in DOMAIN presenters : presenters[i].done)
  /\ [][AfterAnalyzer => (zombies' = zombies /\ AfterAnalyzer')]_vars

\* C9 witness: a run with AI analysis ended normally after the table and the
\* markdown report had both read the list.
C9_Witness ==
  /\ pc = "exited" /\ exit_status = "zero" /\ caller = "main"
  /\ PresenterNames = <<"table", "markdown">>

\* C10 as stated: a request is sent only with the AI toggle on and a
\* non-empty list; with the toggle off no request is sent and no record
\* carries a risk analysis.
C10_Original ==
  /\ requests # <<>> => (analyze /\ zombies # <<>>)
  /\ ~analyze => (requests = <<>> /\ \A i \in DOMAIN zombies : ~HasAnalysis(zombies[i]))

\* C10, amended: a request is sent only for a non-empty list, and only in a
\* scan with the AI toggle on or in the 'test Bedrock access' mode (which
\* sends requests whatever the toggle); in a scan with the toggle off no
\* request is sent, the analyzer is not entered and no record carries a risk
\* analysis; in a scan with the toggle on and nothing found the analyzer is
\* not entered and no request is sent.
C10_RequestsOnlyWhenAsked ==
  /\ requests # <<>> => (zombies # <<>> /\ (test_bedrock \/ analyze))
  /\ (~test_bedrock /\ ~analyze) =>
       /\ requests = <<>> /\ caller = "none" /\ ai_outcome = "none"
       /\ \A i \in DOMAIN zombies : ~HasAnalysis(zombies[i])
  /\ (~test_bedrock /\ analyze /\ zombies = <<>>) =>
       (requests = <<>> /\ caller = "none" /\ pc \notin AnalyzerPcs)
  /\ pc \in {"invoke", "invoked", "ai_except"} => zombies # <<>>

\* C10 witness: a scan with the AI toggle off wrote two records to the JSON
\* file, neither with a risk analysis, and no request was sent.
C10_Witness ==
  /\ pc = "exited" /\ exit_status = "zero" /\ ~analyze /\ ~test_bedrock
  /\ PresenterNames = <<"json">> /\ Len(zombies) = 2 /\ requests = <<>>
  /\ \A i \in DOMAIN zombies : ~HasAnalysis(zombies[i])

\* ------------------------------------------------------- the hunt's claim
\* The list the hunt is asked to scan: --regions when given, the hunter's
\* own enumerated list otherwise.
RequestedRegions == IF cli_regions # <<>> THEN cli_regions ELSE hunter_regions

\* The calls of a whole hunt over list: per entry, in list order, the volume
\* scanner's call and then the static-IP scanner's.
ExpectedCalls(list) ==
  [k \in 1..(2 * Len(list)) |->
     << IF k % 2 = 1 THEN "describe_volumes" ELSE "describe_addresses",
        list[(k + 1) \div 2] >>]

IsPrefix(a, b) == Len(a) <= Len(b) /\ SubSeq(b, 1, Len(a)) = a

\* The item of the answer a record was made from.
ItemOf(z) == z.resource_id[3]
KindOf(call) == IF call[1] = "describe_volumes" THEN "ebs_volume" ELSE "elastic_ip"
\* The items of an answer its scanner makes records of.
Eligible(kind, items) ==
  IF kind = "ebs_volume" THEN DOMAIN items
  ELSE {i \in DOMAIN items : IsIdle(items[i])}

\* new holds one record per eligible item, in the order of the answer, each
\* of the scanner's kind and of the scanned region.
Produced(new, kind, region, items) ==
  /\ Len(new) = Cardinality(Eligible(kind, items))
  /\ \A j \in DOMAIN new :
       /\ new[j].resource_type = kind
       /\ new[j].region = region
       /\ ItemOf(new[j]) \in Eligible(kind, items)
       /\ \A k \in DOMAIN new : j < k => ItemOf(new[j]) < ItemOf(new[k])

\* The records zs[i..] can be laid along calls[j..] in order: each record
\* under a call of its kind and region, the records under one call in the
\* order of its answer (last: the item of the record before, under call j).
RECURSIVE InScanOrder(_, _, _, _, _)
InScanOrder(zs, i, calls, j, last) ==
  IF i > Len(zs) THEN TRUE
  ELSE IF j > Len(calls) THEN FALSE
  ELSE IF /\ zs[i].resource_type = KindOf(calls[j])
          /\ zs[i].region = calls[j][2]
          /\ ItemOf(zs[i]) > last
       THEN InScanOrder(zs, i + 1, calls, j, ItemOf(zs[i]))
       ELSE InScanOrder(zs, i, calls, j + 1, 0)

\* C11: hunt_zombies calls the scanners once per entry of the requested
\* region list (the enumerated list when none is given), in list order, the
\* volume scanner before the static-IP scanner; every answered scan appends
\* one record per item found, of its region, after all records found before,
\* and nothing else in the hunt touches the list, so the result is the
\* concatenation of the scanners' records in call order, a region listed
\* twice giving its records twice.
C11_HuntConcatenates ==
  /\ [](IsPrefix(ec2_calls, ExpectedCalls(RequestedRegions)))
  /\ [](pc = "hunted" =>
          /\ ec2_calls = ExpectedCalls(RequestedRegions)
          /\ InScanOrder(zombies, 1, ec2_calls, 1, 0))
  /\ [][(ScanAnswered /\ response.status = "ok") =>
          /\ IsPrefix(zombies, zombies')
          /\ Produced(SubSeq(zombies', Len(zombies) + 1, Len(zombies')),
                      KindOf(ec2_calls[Len(ec2_calls)]),
                      scan_regions[region_idx], response.items)
          /\ ec2_calls[Len(ec2_calls)][2] = scan_regions[region_idx]]_vars
  /\ [][((pc = "hunt" \/ pc = "ips" \/ pc = "hunted") \/ (pc = "main" /\ ~test_bedrock))
          => zombies' = zombies]_vars

\* C11 witness: a hunt over the same region listed twice is done, and the
\* list holds that region's volume and address twice, in scan order.
C11_Witness ==
  /\ pc = "hunted"
  /\ cli_regions = <<"eu-west-1", "eu-west-1">>
  /\ Len(ec2_calls) = 4
  /\ Len(zombies) = 4
  /\ zombies[1].resource_type = "ebs_volume" /\ zombies[2].resource_type = "elastic_ip"
  /\ zombies[3] = zombies[1] /\ zombies[4] = zombies[2]
====
